---- MODULE Spec2Model ----
(***************************************************************************)
(* Model of the two Lambda handlers of AWS-event-driven-cloudformation:    *)
(*   src/src/producer/lambda_function.py  (API Gateway -> SQS)             *)
(*   src/src/consumer/lambda_function.py  (SQS -> SNS)                     *)
(* Python values are tagged records [k |-> kind, v |-> payload]; a call    *)
(* that may raise yields Ok(value) or Raise(type, msg).                    *)
(***************************************************************************)
EXTENDS Integers, Sequences, FiniteSets, TLC

\* ------------------------------------------------------------------ bounds
MaxMsgLen == 52
MaxRecords == 2
MaxClock == 2
MaxInvocations == 2
MaxReplayRecords == 2

\* ------------------------------------------------------- Python values
PyNone == [k |-> "none"]
PyInt(n) == [k |-> "int", v |-> n]
\* a str given by its characters (a sequence of one-character strings)
PyStr(chars) == [k |-> "str", v |-> chars]
\* a str given as a literal of the source (or an opaque identifier)
PyLit(s) == [k |-> "lit", v |-> s]
PyList(items) == [k |-> "list", v |-> items]
\* a dict: a function from its keys to its values
PyDict(f) == [k |-> "dict", v |-> f]
\* the str json.dumps produces for the value doc
JsonText(doc) == [k |-> "json", v |-> doc]
\* the str datetime.isoformat() produces for the instant t
IsoText(t) == [k |-> "iso", v |-> t]
\* the function of a dict without keys
EmptyDict == [x \in {} |-> PyNone]

Ok(val) == [ok |-> TRUE, val |-> val]
Raise(type, msg) == [ok |-> FALSE, exc |-> [type |-> type, msg |-> msg]]

Min(a, b) == IF a < b THEN a ELSE b

\* the characters of the three key names the handlers look up
KeyChars(key) ==
  CASE key = "message" -> <<"m", "e", "s", "s", "a", "g", "e">>
    [] key = "priority" -> <<"p", "r", "i", "o", "r", "i", "t", "y">>
    [] key = "category" -> <<"c", "a", "t", "e", "g", "o", "r", "y">>

IsSubstring(sub, chars) ==
  \E i \in 0..Len(chars) :
    /\ i + Len(sub) <= Len(chars)
    /\ \A j \in 1..Len(sub) : chars[i + j] = sub[j]

\* json.loads(obj): only a str holding a JSON document decodes; a str of
\* other text (the empty str included) raises JSONDecodeError; None or a
\* number raises TypeError ("the JSON object must be str, bytes or bytearray").
JsonLoads(obj) ==
  CASE obj.k = "json" -> Ok(obj.v)
    [] obj.k \in {"str", "lit", "iso"} ->
         Raise("JSONDecodeError", "Expecting value: line 1 column 1 (char 0)")
    [] OTHER -> Raise("TypeError", "the JSON object must be str, bytes or bytearray")

\* Python's `key in obj` for a str key
PyContains(key, obj) ==
  CASE obj.k = "dict" -> Ok(key \in DOMAIN obj.v)
    [] obj.k = "list" -> Ok(\E i \in 1..Len(obj.v) : obj.v[i] = PyStr(KeyChars(key)))
    [] obj.k = "str" -> Ok(IsSubstring(KeyChars(key), obj.v))
    [] OTHER -> Raise("TypeError", "argument is not iterable")

\* Python's obj[key] for a str key
PyGetItem(obj, key) ==
  CASE obj.k = "dict" ->
         IF key \in DOMAIN obj.v THEN Ok(obj.v[key]) ELSE Raise("KeyError", key)
    [] obj.k \in {"list", "str"} -> Raise("TypeError", "indices must be integers")
    [] OTHER -> Raise("TypeError", "object is not subscriptable")

\* d[key] = val on a dict's function
DictSet(f, key, val) == [x \in DOMAIN f \cup {key} |-> IF x = key THEN val ELSE f[x]]

\* ------------------------------------------------------------ state
VARIABLES
  clock,          \* the instant datetime.utcnow() reads
  p_event,        \* producer: the event of the last invocation
  p_context,      \* producer: its context (aws_request_id)
  p_response,     \* producer: the response it returned
  p_calls,        \* producer: the sqs.send_message requests it made
  p_answer,       \* producer: what SQS answered to the request, if one was made
  p_count,        \* producer: invocations so far
  p_at,           \* producer: the instant the last invocation began at
  p_prev,         \* producer: response, instant and answer of the invocation before
  c_runs,         \* consumer: invocations so far
  c_prev,         \* consumer: the result of the invocation before
  c_event,        \* consumer: the event of the invocation
  c_sns,          \* consumer: per record, what SNS answers if asked to publish
  c_pc,           \* consumer: "idle", "loop", "returned" or "raised"
  c_i,            \* consumer: records the loop has gone through
  processed_messages,  \* consumer: the list of line 30
  failed_messages,     \* consumer: the list of line 31
  c_calls,        \* consumer: the sns.publish requests made, in order
  c_result,       \* consumer: the response returned, or the exception raised
  e_body,         \* direct call: the decoded envelope given to process_message
  e_id,           \* direct call: the message id
  e_pc,           \* direct call: "start", "processed", "published"
  e_record,       \* direct call: what process_message returned or raised
  e_publish       \* direct call: what publish_to_sns did

pvars == <<p_event, p_context, p_response, p_calls, p_answer, p_count, p_at, p_prev>>
cvars == <<c_event, c_sns, c_pc, c_i, processed_messages, failed_messages, c_calls, c_result,
           c_runs, c_prev>>
evars == <<e_body, e_id, e_pc, e_record, e_publish>>
vars == <<clock, pvars, cvars, evars>>

\* ------------------------------------------------- producer lambda_handler
CorsHeaders ==
  [ContentType |-> "application/json", AccessControlAllowOrigin |-> "*"]

HttpResponse(status, bodyDict) ==
  [statusCode |-> status, headers |-> CorsHeaders, body |-> JsonText(PyDict(bodyDict))]

ErrorResponse(status, text) == HttpResponse(status, "error" :> PyLit(text))

InvalidJsonResponse == ErrorResponse(400, "Invalid JSON in request body")

MissingMessageResponse == ErrorResponse(400, "Missing required field: message")

\* a slip: the exception's text is returned to the caller
InternalErrorResponseLeaky(exc) == ErrorResponse(500, exc.msg)

\* lines 133-144: the exception is logged, the caller gets a generic text
InternalErrorResponse(exc) == ErrorResponse(500, "Internal server error")

SuccessResponse(messageId, timestamp) ==
  HttpResponse(200, [x \in {"message", "message_id", "timestamp"} |->
                      CASE x = "message" -> PyLit("Message sent successfully")
                        [] x = "message_id" -> messageId
                        [] x = "timestamp" -> timestamp])

\* lines 58-73: the body, decoded; an event without body gives {}
ParseBody(event) ==
  IF "body" \in DOMAIN event THEN JsonLoads(event["body"]) ELSE Ok(PyDict(EmptyDict))

\* a slip: the key is set even when body lacks it (body.get(key))
CopyOptionalAlways(payload, body, key) ==
  IF ~payload.ok THEN payload
  ELSE Ok(DictSet(payload.val, key,
                  IF body.k = "dict" /\ key \in DOMAIN body.v THEN body.v[key] ELSE PyNone))

\* lines 97-100: copy key from body into payload when body has it
CopyOptional(payload, body, key) ==
  LET has == PyContains(key, body)
  IN  IF ~payload.ok THEN payload
      ELSE IF ~has.ok THEN has
      ELSE IF ~has.val THEN payload
      ELSE LET item == PyGetItem(body, key)
           IN  IF ~item.ok THEN item ELSE Ok(DictSet(payload.val, key, item.val))

\* a slip: the timestamp is one taken when the module was loaded
MessagePayloadStale(body, context, now) ==
  LET msg == PyGetItem(body, "message")
      base == IF ~msg.ok THEN msg
              ELSE Ok([x \in {"message", "timestamp", "request_id", "source"} |->
                        CASE x = "message" -> msg.val
                          [] x = "timestamp" -> IsoText(0)
                          [] x = "request_id" -> PyLit(context.aws_request_id)
                          [] x = "source" -> PyLit("api-gateway")])
  IN  CopyOptional(CopyOptional(base, body, "priority"), body, "category")

\* lines 89-100: the envelope (a dict's function), or the exception raised
MessagePayload(body, context, now) ==
  LET msg == PyGetItem(body, "message")
      base == IF ~msg.ok THEN msg
              ELSE Ok([x \in {"message", "timestamp", "request_id", "source"} |->
                        CASE x = "message" -> msg.val
                          [] x = "timestamp" -> IsoText(now)
                          [] x = "request_id" -> PyLit(context.aws_request_id)
                          [] x = "source" -> PyLit("api-gateway")])
  IN  CopyOptional(CopyOptional(base, body, "priority"), body, "category")

\* a slip: the Timestamp tag carries the request id (copied attribute)
SendMessageRequestCopiedTag(payload, context) ==
  [MessageBody |-> JsonText(PyDict(payload)),
   MessageAttributes |-> [RequestId |-> PyLit(context.aws_request_id),
                          Timestamp |-> PyLit(context.aws_request_id)]]

\* lines 103-116: the request handed to sqs.send_message
SendMessageRequest(payload, context) ==
  [MessageBody |-> JsonText(PyDict(payload)),
   MessageAttributes |-> [RequestId |-> PyLit(context.aws_request_id),
                          Timestamp |-> payload["timestamp"]]]

\* lines 54-144: the response and the requests made to SQS, for the event,
\* the context, the instant read and the answer SQS gives if it is asked
ProducerRun(event, context, now, answer) ==
  LET parsed == ParseBody(event)
      body == parsed.val
      has == PyContains("message", body)
      payload == MessagePayload(body, context, now)
      request == SendMessageRequest(payload.val, context)
      mid == PyGetItem(answer.val, "MessageId")
  IN  IF ~parsed.ok
        THEN IF parsed.exc.type = "JSONDecodeError"
               THEN [response |-> InvalidJsonResponse, calls |-> <<>>]
               ELSE [response |-> InternalErrorResponse(parsed.exc), calls |-> <<>>]
      ELSE IF ~has.ok
        THEN [response |-> InternalErrorResponse(has.exc), calls |-> <<>>]
      ELSE IF ~has.val
        THEN [response |-> MissingMessageResponse, calls |-> <<>>]
      ELSE IF ~payload.ok
        THEN [response |-> InternalErrorResponse(payload.exc), calls |-> <<>>]
      ELSE IF ~answer.ok
        THEN [response |-> InternalErrorResponse(answer.exc), calls |-> <<request>>]
      ELSE IF ~mid.ok
        THEN [response |-> InternalErrorResponse(mid.exc), calls |-> <<request>>]
      ELSE [response |-> SuccessResponse(mid.val, payload.val["timestamp"]),
            calls |-> <<request>>]

\* ------------------------------------------------- consumer functions
SmsLimit == 50

MessageProcessedPrefix ==
  <<"M", "e", "s", "s", "a", "g", "e", " ", "p", "r", "o", "c", "e", "s", "s", "e", "d", ":", " ">>

ProcessedPrefix == <<"P", "r", "o", "c", "e", "s", "s", "e", "d", ":", " ">>

Ellipsis == <<".", ".", ".">>

NoMessage == PyStr(<<"N", "o", " ", "m", "e", "s", "s", "a", "g", "e">>)

Digit(n) == <<"0", "1", "2", "3", "4", "5", "6", "7", "8", "9">>[n + 1]

RECURSIVE JoinInts(_)
\* ", ".join of the str() of a list of one-digit ints
JoinInts(items) ==
  IF Len(items) = 0 THEN <<>>
  ELSE IF Len(items) = 1 THEN <<Digit(items[1].v)>>
  ELSE <<Digit(items[1].v), ",", " ">> \o JoinInts(Tail(items))

\* the characters an f-string renders for a value
PyFormat(val) ==
  CASE val.k = "str" -> val.v
    [] val.k = "int" -> <<Digit(val.v)>>
    [] val.k = "none" -> <<"N", "o", "n", "e">>
    [] val.k = "list" -> <<"[">> \o JoinInts(val.v) \o <<"]">>
    [] val.k = "dict" -> <<"{", "}">>

\* val[:n]
PySlice(val, n) ==
  CASE val.k = "str" -> Ok(PyStr(SubSeq(val.v, 1, Min(n, Len(val.v)))))
    [] val.k = "list" -> Ok(PyList(SubSeq(val.v, 1, Min(n, Len(val.v)))))
    [] OTHER -> Raise("TypeError", "object is not subscriptable")

\* obj.get(key, default)
PyGet(obj, key, default) ==
  IF obj.k = "dict"
    THEN Ok(IF key \in DOMAIN obj.v THEN obj.v[key] ELSE default)
    ELSE Raise("AttributeError", "object has no attribute 'get'")

\* a slip: the value is stored under the envelope's key, not under target
CopyMetadataSameKey(processed, message_body, key, target) ==
  LET has == PyContains(key, message_body)
  IN  IF ~processed.ok THEN processed
      ELSE IF ~has.ok THEN has
      ELSE IF ~has.val THEN processed
      ELSE LET item == PyGetItem(message_body, key)
           IN  IF ~item.ok THEN item ELSE Ok(DictSet(processed.val, key, item.val))

\* lines 97-101: processed_message[target] = message_body[key] when present
CopyMetadata(processed, message_body, key, target) ==
  LET has == PyContains(key, message_body)
  IN  IF ~processed.ok THEN processed
      ELSE IF ~has.ok THEN has
      ELSE IF ~has.val THEN processed
      ELSE LET item == PyGetItem(message_body, key)
           IN  IF ~item.ok THEN item ELSE Ok(DictSet(processed.val, target, item.val))

\* line 104
ProcessingStatus == PyLit("completed")

\* lines 77-106: the processed record (a dict's function), or the exception
process_message(message_body, message_id, now) ==
  LET base == Ok([x \in {"original_message", "processed_at", "message_id",
                          "processor", "version"} |->
                   CASE x = "original_message" -> message_body
                     [] x = "processed_at" -> IsoText(now)
                     [] x = "message_id" -> message_id
                     [] x = "processor" -> PyLit("consumer-lambda")
                     [] x = "version" -> PyLit("1.0")])
      Completed(meta) ==
        IF ~meta.ok THEN meta
        ELSE Ok(DictSet(meta.val, "processing_status", ProcessingStatus))
  IN  Completed(CopyMetadata(CopyMetadata(base, message_body, "priority", "priority_level"),
                             message_body, "category", "category"))

\* a slip: the content is not cut
SmsTextUncut(content) ==
  IF content.k \notin {"str", "list"} THEN Raise("TypeError", "object is not subscriptable")
  ELSE Ok(PyStr(ProcessedPrefix \o PyFormat(content) \o Ellipsis))

\* line 124: the sms text for the message content
SmsText(content) ==
  LET cut == PySlice(content, SmsLimit)
  IN  IF ~cut.ok THEN cut
      ELSE Ok(PyStr(ProcessedPrefix \o PyFormat(cut.val) \o Ellipsis))

\* line 123: the email text for the message content
EmailText(content) == PyStr(MessageProcessedPrefix \o PyFormat(content))

\* lines 121-125: the three representations, or the exception raised
SnsMessage(message) ==
  LET Rendered(content, sms) ==
        IF ~sms.ok THEN sms
        ELSE Ok([x \in {"default", "email", "sms"} |->
                  CASE x = "default" -> JsonText(PyDict(message))
                    [] x = "email" -> EmailText(content)
                    [] x = "sms" -> sms.val])
      Content(content) ==
        IF ~content.ok THEN content ELSE Rendered(content.val, SmsText(content.val))
      Original(original) ==
        IF ~original.ok THEN original
        ELSE Content(PyGet(original.val, "message", NoMessage))
  IN  Original(PyGet(PyDict(message), "original_message", PyDict(EmptyDict)))

\* lines 128-142: the request handed to sns.publish
PublishRequest(sns_message, message, message_id) ==
  [Message |-> JsonText(PyDict(sns_message)),
   MessageStructure |-> "json",
   MessageAttributes |-> [MessageId |-> message_id,
                          ProcessingTime |-> message["processed_at"]]]

\* lines 108-149: what publish_to_sns returns or raises, and the requests it
\* made, when SNS gives the answer if asked
publish_to_sns(message, message_id, answer) ==
  LET Publish(sns_message) ==
        IF ~sns_message.ok THEN [out |-> sns_message, calls |-> <<>>]
        ELSE [out |-> answer,
              calls |-> <<PublishRequest(sns_message.val, message, message_id)>>]
  IN  Publish(SnsMessage(message))

\* ------------------------------------------------- consumer lambda_handler
\* lines 47-51
SuccessEntry(message_id, sns_message_id) ==
  PyDict([x \in {"message_id", "sns_message_id", "status"} |->
           CASE x = "message_id" -> message_id
             [] x = "sns_message_id" -> sns_message_id
             [] x = "status" -> PyLit("success")])

\* lines 57-61
FailedEntry(message_id, exc) ==
  PyDict([x \in {"message_id", "error", "status"} |->
           CASE x = "message_id" -> message_id
             [] x = "error" -> PyLit(exc.msg)
             [] x = "status" -> PyLit("failed")])

\* lines 34-51: the try block for one record: the entry appended to
\* processed_messages or the exception raised, and the publishes made
TryRecord(record, now, answer) ==
  LET Entry(message_id, published, sns_id) ==
        IF ~sns_id.ok THEN [out |-> sns_id, calls |-> published.calls]
        ELSE [out |-> Ok(SuccessEntry(message_id, sns_id.val)), calls |-> published.calls]
      Published(message_id, published) ==
        IF ~published.out.ok THEN published
        ELSE Entry(message_id, published, PyGetItem(published.out.val, "MessageId"))
      Processed(message_id, processed) ==
        IF ~processed.ok THEN [out |-> processed, calls |-> <<>>]
        ELSE Published(message_id, publish_to_sns(processed.val, message_id, answer))
      Identified(message_body, message_id) ==
        IF ~message_id.ok THEN [out |-> message_id, calls |-> <<>>]
        ELSE Processed(message_id.val, process_message(message_body, message_id.val, now))
      Decoded(message_body) ==
        IF ~message_body.ok THEN [out |-> message_body, calls |-> <<>>]
        ELSE Identified(message_body.val, PyGetItem(record, "messageId"))
      Fetched(raw) ==
        IF ~raw.ok THEN [out |-> raw, calls |-> <<>>] ELSE Decoded(JsonLoads(raw.val))
  IN  Fetched(PyGetItem(record, "body"))

\* a slip: the failed entry never carries the record's own id
ExceptRecordUnknown(record, exc) ==
  IF record.k # "dict" THEN Raise("AttributeError", "object has no attribute 'get'")
  ELSE Ok(FailedEntry(PyLit("unknown"), exc))

\* lines 55-61: the except block for one record: the entry appended to
\* failed_messages, or the exception record.get raises
ExceptRecord(record, exc) ==
  LET message_id == PyGet(record, "messageId", PyLit("unknown"))
  IN  IF ~message_id.ok THEN message_id ELSE Ok(FailedEntry(message_id.val, exc))

\* lines 33-61, one iteration: kind is "success", "failed" or "escape" (an
\* exception leaves the loop)
RecordOutcome(record, now, answer) ==
  LET Handled(try, handled) ==
        IF handled.ok THEN [kind |-> "failed", entry |-> handled.val, calls |-> try.calls]
        ELSE [kind |-> "escape", exc |-> handled.exc, calls |-> try.calls]
      Tried(try) ==
        IF try.out.ok THEN [kind |-> "success", entry |-> try.out.val, calls |-> try.calls]
        ELSE Handled(try, ExceptRecord(record, try.out.exc))
  IN  Tried(TryRecord(record, now, answer))

\* a slip: the first failed record ends the loop
LoopAdvanceBreak(i, n, kind) == IF kind = "failed" THEN n ELSE i + 1

\* line 33: the for loop goes on to the next record, whatever the outcome
LoopAdvance(i, n, kind) == i + 1

\* len(obj)
PyLen(obj) ==
  IF obj.k \in {"list", "str"} THEN Ok(Len(obj.v))
  ELSE IF obj.k = "dict" THEN Ok(Cardinality(DOMAIN obj.v))
  ELSE Raise("TypeError", "object has no len()")

\* line 28: event['Records'], which must have a length
EventRecords(event) ==
  LET records == PyGetItem(PyDict(event), "Records")
      n == PyLen(records.val)
  IN  IF ~records.ok THEN records ELSE IF ~n.ok THEN n ELSE records

\* lines 63-71
BatchResult(processed, failed) ==
  [statusCode |-> 200,
   body |-> JsonText(PyDict(
     [x \in {"processed_count", "failed_count", "processed_messages", "failed_messages"} |->
       CASE x = "processed_count" -> PyInt(Len(processed))
         [] x = "failed_count" -> PyInt(Len(failed))
         [] x = "processed_messages" -> PyList(processed)
         [] x = "failed_messages" -> PyList(failed)]))]

\* --------------------------------------------------------------- inputs
Absent == [k |-> "absent"]

Letter(i) == <<"a", "b", "c">>[(i % 3) + 1]

StrOfLen(n) == PyStr([i \in 1..n |-> Letter(i)])

\* a dict with the keys whose value is not Absent
MkDict(fields) ==
  PyDict([x \in {y \in DOMAIN fields : fields[y] # Absent} |-> fields[x]])

MessageValues ==
  {StrOfLen(n) : n \in 0..MaxMsgLen}
    \cup {PyInt(5), PyNone, PyList(<<PyInt(1), PyInt(2)>>), PyDict(EmptyDict)}

PriorityValues == {PyLit("high"), PyNone}

CategoryValues == {PyLit("test")}

BodyDicts ==
  {MkDict([message |-> m, priority |-> p, category |-> c, extra |-> x]) :
     m \in MessageValues \cup {Absent}, p \in PriorityValues \cup {Absent},
     c \in CategoryValues \cup {Absent}, x \in {PyInt(1), Absent}}

\* decoded bodies that are not mappings
OtherDocs(key) ==
  {PyNone, PyInt(5), PyStr(<<"x">>), PyStr(KeyChars(key)), PyList(<<>>),
   PyList(<<PyStr(KeyChars(key))>>)}

\* str bodies that are not JSON documents
BadTexts == {PyStr(<<>>), PyStr(<<"x">>)}

\* the request bodies: message contents of two lengths are enough here
ProducerDicts ==
  {d \in BodyDicts :
     "message" \in DOMAIN d.v /\ d.v["message"].k = "str" => Len(d.v["message"].v) \in {0, 2}}

ProducerBodies ==
  {PyNone, PyInt(5)} \cup BadTexts
    \cup {JsonText(doc) : doc \in ProducerDicts \cup OtherDocs("message")}

ProducerEvents == {EmptyDict} \cup {("body" :> b) : b \in ProducerBodies}

Contexts == {[aws_request_id |-> r] : r \in {"req-1", "req-2"}}

SqsAnswers ==
  {Ok(PyDict("MessageId" :> PyLit(m))) : m \in {"sqs-1", "sqs-2"}}
    \cup {Raise("ClientError", "SQS Error"), Raise("EndpointConnectionError", "no route")}

SnsAnswers ==
  {Ok(PyDict("MessageId" :> PyLit("sns-1"))), Raise("ClientError", "SNS Error")}

MessageIds == {PyLit("id-1"), PyLit("id-2")}

ConsumerDocs ==
  {PyInt(5),
   MkDict([message |-> StrOfLen(2), priority |-> PyLit("high")]),
   MkDict([message |-> PyInt(5)])}

ConsumerBodies == {Absent, PyNone, PyStr(<<"x">>)} \cup {JsonText(doc) : doc \in ConsumerDocs}

\* records: mappings with or without messageId and body, and a non-mapping
ConsumerRecords ==
  {PyStr(<<"x">>)}
    \cup {MkDict([messageId |-> i, body |-> b]) :
            i \in MessageIds \cup {Absent}, b \in ConsumerBodies}

RECURSIVE SeqsUpTo(_, _)
\* the sequences over S of length at most n
SeqsUpTo(S, n) ==
  IF n = 0 THEN {<<>>}
  ELSE LET shorter == SeqsUpTo(S, n - 1)
       IN  shorter \cup {Append(q, x) : q \in {r \in shorter : Len(r) = n - 1}, x \in S}

ConsumerEvents ==
  {EmptyDict, ("Records" :> PyNone)}
    \cup {("Records" :> PyList(rs)) : rs \in SeqsUpTo(ConsumerRecords, MaxRecords)}

EnrichBodies == BodyDicts \cup OtherDocs("priority")

\* ------------------------------------------------------------- actions
ProducerIdle ==
  /\ p_event = EmptyDict /\ p_context = PyNone /\ p_response = PyNone
  /\ p_calls = <<>> /\ p_answer = PyNone /\ p_count = 0
  /\ p_at = 0 /\ p_prev = PyNone

ConsumerIdle ==
  /\ c_event = EmptyDict /\ c_sns = <<>> /\ c_pc = "idle" /\ c_i = 0
  /\ processed_messages = <<>> /\ failed_messages = <<>>
  /\ c_calls = <<>> /\ c_result = PyNone
  /\ c_runs = 0 /\ c_prev = PyNone

EnrichIdle ==
  /\ e_body = PyNone /\ e_id = PyNone /\ e_pc = "idle"
  /\ e_record = PyNone /\ e_publish = PyNone

\* time passes
Tick ==
  /\ clock < MaxClock
  /\ clock' = clock + 1
  /\ UNCHANGED <<pvars, cvars, evars>>

\* the producer's lambda_handler runs on event
ProducerInvocation(event) ==
  /\ \E context \in Contexts, answer \in SqsAnswers :
       LET run == ProducerRun(event, context, clock, answer)
       IN  /\ p_event' = event
           /\ p_context' = context
           /\ p_answer' = answer
           /\ p_response' = run.response
           /\ p_calls' = run.calls
  /\ p_count' = p_count + 1
  /\ p_at' = clock
  /\ p_prev' = [response |-> p_response, at |-> p_at, answer |-> p_answer]
  /\ UNCHANGED <<clock, cvars, evars>>

\* a request arrives and the producer's lambda_handler handles it
ProducerHandler ==
  /\ p_count = 0
  /\ \E event \in ProducerEvents : ProducerInvocation(event)

\* the same request arrives again (the handler keeps no state between
\* invocations, so a different request would start an independent run)
ProducerReinvoke ==
  /\ p_count \in 1..(MaxInvocations - 1)
  /\ ProducerInvocation(p_event)

\* the consumer's lambda_handler begins on event: lines 27-31
ConsumerStart(event) ==
  /\ LET records == EventRecords(event)
     IN  /\ c_event' = event
         /\ IF records.ok
              THEN /\ c_pc' = "loop"
                   /\ c_result' = PyNone
                   /\ c_sns' \in [1..Len(records.val.v) -> SnsAnswers]
              ELSE /\ c_pc' = "raised"
                   /\ c_result' = records.exc
                   /\ c_sns' = <<>>
  /\ c_i' = 0
  /\ processed_messages' = <<>>
  /\ failed_messages' = <<>>
  /\ c_calls' = <<>>
  /\ c_runs' = c_runs + 1
  /\ c_prev' = c_result
  /\ UNCHANGED <<clock, pvars, evars>>

\* a batch is delivered and the consumer's lambda_handler is invoked
ConsumerInvoke ==
  /\ c_pc = "idle"
  /\ \E event \in ConsumerEvents : ConsumerStart(event)

\* the same batch is delivered again (batches of at most MaxReplayRecords)
ConsumerReinvoke ==
  /\ c_pc \in {"returned", "raised"}
  /\ c_runs \in 1..(MaxInvocations - 1)
  /\ EventRecords(c_event).ok => Len(c_event["Records"].v) <= MaxReplayRecords
  /\ ConsumerStart(c_event)

\* one iteration of the loop of line 33
ProcessRecord ==
  /\ c_pc = "loop"
  /\ c_i < Len(c_event["Records"].v)
  /\ \E outcome \in {RecordOutcome(c_event["Records"].v[c_i + 1], clock, c_sns[c_i + 1])} :
         /\ c_calls' = c_calls \o outcome.calls
         /\ processed_messages' =
              IF outcome.kind = "success" THEN Append(processed_messages, outcome.entry)
              ELSE processed_messages
         /\ failed_messages' =
              IF outcome.kind = "failed" THEN Append(failed_messages, outcome.entry)
              ELSE failed_messages
         /\ IF outcome.kind = "escape"
              THEN c_pc' = "raised" /\ c_result' = outcome.exc
              ELSE c_pc' = "loop" /\ c_result' = c_result
         /\ c_i' = LoopAdvance(c_i, Len(c_event["Records"].v), outcome.kind)
  /\ UNCHANGED <<clock, c_event, c_sns, c_runs, c_prev, pvars, evars>>

\* the loop is over: lines 63-71
ConsumerReturn ==
  /\ c_pc = "loop"
  /\ c_i = Len(c_event["Records"].v)
  /\ c_pc' = "returned"
  /\ c_result' = BatchResult(processed_messages, failed_messages)
  /\ UNCHANGED <<clock, c_event, c_sns, c_i, processed_messages, failed_messages,
                 c_calls, c_runs, c_prev, pvars, evars>>

\* process_message called on its own
CallProcessMessage ==
  /\ e_pc = "start"
  /\ e_record' = process_message(e_body, e_id, clock)
  /\ e_pc' = "processed"
  /\ UNCHANGED <<clock, e_body, e_id, e_publish, pvars, cvars>>

\* publish_to_sns called on the record process_message returned
CallPublishToSns ==
  /\ e_pc = "processed"
  /\ e_record.ok
  /\ \E answer \in SnsAnswers : e_publish' = publish_to_sns(e_record.val, e_id, answer)
  /\ e_pc' = "published"
  /\ UNCHANGED <<clock, e_body, e_id, e_record, pvars, cvars>>

\* ------------------------------------------------------ specifications
ProducerInit == clock = 0 /\ ProducerIdle /\ ConsumerIdle /\ EnrichIdle

ProducerNext == Tick \/ ProducerHandler \/ ProducerReinvoke

ProducerSpec == ProducerInit /\ [][ProducerNext]_vars

ConsumerInit == clock = 0 /\ ProducerIdle /\ ConsumerIdle /\ EnrichIdle

ConsumerNext == Tick \/ ConsumerInvoke \/ ProcessRecord \/ ConsumerReturn

ConsumerSpec == ConsumerInit /\ [][ConsumerNext]_vars

\* either handler, invoked and invoked again on the same input; the handlers
\* share no state, so a behaviour follows one of them
ReplayProducerHandler == c_pc = "idle" /\ ProducerHandler

ReplayConsumerInvoke == p_count = 0 /\ ConsumerInvoke

ReplayInit == clock = 0 /\ ProducerIdle /\ ConsumerIdle /\ EnrichIdle

ReplayNext ==
  \/ Tick
  \/ ReplayProducerHandler
  \/ ProducerReinvoke
  \/ ReplayConsumerInvoke
  \/ ProcessRecord
  \/ ConsumerReturn
  \/ ConsumerReinvoke

ReplaySpec == ReplayInit /\ [][ReplayNext]_vars

EnrichInit ==
  /\ clock \in 0..MaxClock
  /\ ProducerIdle /\ ConsumerIdle
  /\ e_body \in EnrichBodies
  /\ e_id \in MessageIds
  /\ e_pc = "start"
  /\ e_record = PyNone
  /\ e_publish = PyNone

EnrichNext == CallProcessMessage \/ CallPublishToSns

EnrichSpec == EnrichInit /\ [][EnrichNext]_vars

\* ------------------------------------------------------ producer claims
\* the decoded body of the producer's event, when json.loads decodes it
DecodedBody(event) == JsonLoads(event["body"])

\* the event has no body, an empty or null body, or a body that decodes to a
\* mapping without the key message
LacksMessage(event) ==
  \/ "body" \notin DOMAIN event
  \/ event["body"] \in {PyNone, PyStr(<<>>)}
  \/ /\ DecodedBody(event).ok
     /\ DecodedBody(event).val.k = "dict"
     /\ "message" \notin DOMAIN DecodedBody(event).val.v

\* C1: a request without body, with an empty or null body, or whose body
\* decodes to a mapping without `message`, is answered 400 "Missing required
\* field: message".
C1_MissingMessageIs400 ==
  (p_count > 0 /\ LacksMessage(p_event)) => p_response = MissingMessageResponse

\* C2: a request whose body is present and cannot be decoded, whatever the
\* reason, is answered 400 "Invalid JSON in request body".
C2_UndecodableIs400 ==
  (p_count > 0 /\ "body" \in DOMAIN p_event /\ ~DecodedBody(p_event).ok)
    => p_response = InvalidJsonResponse

\* the request body decodes to a mapping that has the key message
HasMessage(event) ==
  /\ "body" \in DOMAIN event
  /\ DecodedBody(event).ok
  /\ DecodedBody(event).val.k = "dict"
  /\ "message" \in DOMAIN DecodedBody(event).val.v

\* the keys of the envelope for a request body with the keys given
EnvelopeKeys(inputKeys) ==
  {"message", "timestamp", "request_id", "source"}
    \cup (inputKeys \cap {"priority", "category"})

\* C7: when the body decodes to a mapping with `message` and the queue accepts
\* the submission, the response is 200 with the queue's message id, and the
\* envelope submitted has exactly message, timestamp, request_id, source, and
\* priority / category iff the input had them, with the input's values.
C7_EnvelopeOnSuccess ==
  (p_count > 0 /\ HasMessage(p_event) /\ p_answer.ok) =>
    LET input == DecodedBody(p_event).val.v
        envelope == JsonLoads(p_calls[1].MessageBody).val.v
    IN  /\ p_response.statusCode = 200
        /\ p_response.body.v.v["message_id"] = p_answer.val.v["MessageId"]
        /\ Len(p_calls) = 1
        /\ DOMAIN envelope = EnvelopeKeys(DOMAIN input)
        /\ \A key \in {"message", "priority", "category"} \cap DOMAIN input :
             envelope[key] = input[key]
        /\ envelope["request_id"] = PyLit(p_context.aws_request_id)
        /\ envelope["source"] = PyLit("api-gateway")
        /\ envelope["timestamp"].k = "iso"

\* C7 witness: a body with message and priority but no category was accepted
C7_Witness ==
  /\ p_count > 0 /\ HasMessage(p_event) /\ p_answer.ok
  /\ "priority" \in DOMAIN DecodedBody(p_event).val.v
  /\ "category" \notin DOMAIN DecodedBody(p_event).val.v
  /\ DecodedBody(p_event).val.v["message"] = PyInt(5)
  /\ p_response.statusCode = 200

\* C8: whenever sqs.send_message raises, whatever the exception, the response
\* is 500 and its error text is exactly "Internal server error".
C8_GenericErrorOnSendFailure ==
  (p_count > 0 /\ Len(p_calls) = 1 /\ ~p_answer.ok) =>
    /\ p_response.statusCode = 500
    /\ p_response.body = JsonText(PyDict("error" :> PyLit("Internal server error")))
    /\ p_response.body.v.v["error"] # PyLit(p_answer.exc.msg)

\* C8 witness: the submission was made and SQS raised
C8_Witness ==
  /\ p_count > 0 /\ Len(p_calls) = 1 /\ ~p_answer.ok
  /\ p_answer.exc.msg = "SQS Error"
  /\ p_response.statusCode = 500

\* ------------------------------------------------------ consumer claims
Records == c_event["Records"].v

\* C3: no failure of an individual record makes the invocation fail: an
\* exception leaves the handler only when it arises outside the per-record
\* processing (here: event['Records'] is missing or has no length).
C3_ItemFailuresNeverEscape ==
  c_pc = "raised" => ~EventRecords(c_event).ok

\* the record is a mapping with messageId and a body that decodes to a mapping
WellFormed(record) ==
  /\ record.k = "dict"
  /\ {"messageId", "body"} \subseteq DOMAIN record.v
  /\ JsonLoads(record.v["body"]).ok
  /\ JsonLoads(record.v["body"]).val.k = "dict"

\* C4: for a batch of N records whose bodies all decode and for which SNS
\* accepts every publish, processed_count = N, failed_count = 0 and SNS was
\* published to N times.
C4_AllSucceed ==
  (/\ c_pc = "returned"
   /\ \A j \in 1..Len(Records) : WellFormed(Records[j]) /\ c_sns[j].ok)
    => /\ c_result.body.v.v["processed_count"] = PyInt(Len(Records))
       /\ c_result.body.v.v["failed_count"] = PyInt(0)
       /\ Len(c_calls) = Len(Records)

\* what the handler does with record j taken on its own
OwnOutcome(j) == RecordOutcome(Records[j], 0, c_sns[j])

RECURSIVE EntriesOf(_, _)
\* the entries of the records 1..j whose own outcome is kind, in order
EntriesOf(j, kind) ==
  IF j = 0 THEN <<>>
  ELSE IF OwnOutcome(j).kind = kind
    THEN Append(EntriesOf(j - 1, kind), OwnOutcome(j).entry)
    ELSE EntriesOf(j - 1, kind)

\* the messageId of the record, or 'unknown' when it has none
IdOf(record) ==
  IF "messageId" \in DOMAIN record.v THEN record.v["messageId"] ELSE PyLit("unknown")

DecodeFails(record) ==
  /\ record.k = "dict"
  /\ "body" \in DOMAIN record.v
  /\ ~JsonLoads(record.v["body"]).ok

PublishRaises(record, answer) ==
  /\ TryRecord(record, 0, answer).calls # <<>>
  /\ ~answer.ok

ListedFailed(list, id, text) ==
  \E p \in 1..Len(list) :
    /\ list[p].v["message_id"] = id
    /\ list[p].v["error"] = PyLit(text)
    /\ list[p].v["status"] = PyLit("failed")

\* every record of the batch is a mapping
AllMappings == \A j \in 1..Len(Records) : Records[j].k = "dict"

RECURSIVE SelectIds(_, _, _)
\* the ids of the records 1..j that mask maps to side, in order
SelectIds(mask, side, j) ==
  IF j = 0 THEN <<>>
  ELSE IF mask[j] = side
    THEN Append(SelectIds(mask, side, j - 1), IdOf(Records[j]))
    ELSE SelectIds(mask, side, j - 1)

IdsOf(list) == [p \in 1..Len(list) |-> list[p].v["message_id"]]

\* C6: in every returned result the two lists are an order-preserving
\* partition of the batch: every record is in exactly one list, once, under
\* its messageId ('unknown' when it has none), each list in delivery order;
\* the counts are the lists' lengths and add up to the number of records.
C6_OrderedPartition ==
  c_pc = "returned" =>
    LET result == c_result.body.v.v
        P == result["processed_messages"].v
        F == result["failed_messages"].v
        n == Len(Records)
    IN  /\ \E mask \in [1..n -> BOOLEAN] :
             /\ IdsOf(P) = SelectIds(mask, TRUE, n)
             /\ IdsOf(F) = SelectIds(mask, FALSE, n)
        /\ \A p \in 1..Len(P) : P[p].v["status"] = PyLit("success")
        /\ \A p \in 1..Len(F) : F[p].v["status"] = PyLit("failed")
        /\ result["processed_count"] = PyInt(Len(P))
        /\ result["failed_count"] = PyInt(Len(F))
        /\ Len(P) + Len(F) = n

\* C6 witness: of two records with different ids the first one's publish
\* raised and the second was processed
C6_Witness ==
  /\ c_pc = "returned"
  /\ Len(Records) = 2
  /\ IdOf(Records[1]) # IdOf(Records[2])
  /\ PublishRaises(Records[1], c_sns[1])
  /\ IdsOf(c_result.body.v.v["failed_messages"].v) = <<IdOf(Records[1])>>
  /\ IdsOf(c_result.body.v.v["processed_messages"].v) = <<IdOf(Records[2])>>

\* ----------------------------------------- process_message, publish_to_sns
\* the envelope is a mapping with the key
EnvelopeHas(key) == e_body.k = "dict" /\ key \in DOMAIN e_body.v

\* C9: for every envelope (a mapping) and message id, process_message returns
\* a record with original_message equal to the envelope, message_id equal to
\* the id given, processor "consumer-lambda", version "1.0", a processed_at
\* value, processing_status "completed", priority_level iff the envelope has
\* priority and category iff the envelope has category, each with the
\* envelope's value, and no other key.
C9_ProcessedRecord ==
  e_pc \in {"processed", "published"} =>
    /\ e_body.k = "dict" => e_record.ok
    /\ e_record.ok =>
         LET rec == e_record.val
         IN  /\ DOMAIN rec =
                  {"original_message", "processed_at", "message_id", "processor", "version",
                   "processing_status"}
                    \cup (IF EnvelopeHas("priority") THEN {"priority_level"} ELSE {})
                    \cup (IF EnvelopeHas("category") THEN {"category"} ELSE {})
             /\ rec["original_message"] = e_body
             /\ rec["message_id"] = e_id
             /\ rec["processor"] = PyLit("consumer-lambda")
             /\ rec["version"] = PyLit("1.0")
             /\ rec["processed_at"].k = "iso"
             /\ rec["processing_status"] = PyLit("completed")
             /\ EnvelopeHas("priority") => rec["priority_level"] = e_body.v["priority"]
             /\ EnvelopeHas("category") => rec["category"] = e_body.v["category"]

\* C9 witness: a record was built from an envelope with priority and without
\* category
C9_Witness ==
  /\ e_pc = "processed" /\ e_record.ok
  /\ EnvelopeHas("priority") /\ ~EnvelopeHas("category")
  /\ "priority_level" \in DOMAIN e_record.val

\* the envelope's message is a str
StringContent == EnvelopeHas("message") /\ e_body.v["message"].k = "str"

\* C10: for a processed record whose message content is a string m, one
\* topic message is published with the representations default, email and
\* sms; email contains m in full and sms is "Processed: " followed by the
\* first min(50, len(m)) characters of m and "...".
C10_SmsTruncation ==
  (e_pc = "published" /\ StringContent) =>
    /\ Len(e_publish.calls) = 1
    /\ LET m == e_body.v["message"].v
           sns_message == JsonLoads(e_publish.calls[1].Message).val.v
       IN  /\ DOMAIN sns_message = {"default", "email", "sms"}
           /\ IsSubstring(m, sns_message["email"].v)
           /\ sns_message["sms"].v =
                <<"P", "r", "o", "c", "e", "s", "s", "e", "d", ":", " ">>
                  \o [i \in 1..Min(50, Len(m)) |-> m[i]] \o <<".", ".", ".">>
           /\ Len(sns_message["sms"].v) <= 11 + 50 + 3

\* C10 witness: a message longer than 50 characters was published
C10_Witness ==
  /\ e_pc = "published" /\ StringContent
  /\ Len(e_body.v["message"].v) > 50
  /\ Len(e_publish.calls) = 1

ProducerRanTwice ==
  /\ p_count >= 2
  /\ p_prev.response.statusCode = 200
  /\ p_response.statusCode = 200

\* both of the consumer's last two invocations returned a result
ConsumerRanTwice ==
  /\ c_runs >= 2
  /\ c_pc = "returned"
  /\ "statusCode" \in DOMAIN c_prev

AckOf(response) == response.body.v.v

\* the message_ids a consumer result lists, in either list
ResultIds(result) ==
  LET lists == result.body.v.v
  IN  {lists["processed_messages"].v[p].v["message_id"] :
         p \in 1..Len(lists["processed_messages"].v)}
      \cup {lists["failed_messages"].v[p].v["message_id"] :
               p \in 1..Len(lists["failed_messages"].v)}

====
